---- MODULE Spec2Model ----
(***************************************************************************)
(* A model of src/code/charts_preparation_eng.py: main() loads the survey  *)
(* table and runs twelve chart renderers in sequence; every renderer draws *)
(* on pyplot's process-wide figure stack, saves through save_plot and then *)
(* calls tight_layout and show.                                            *)
(*                                                                         *)
(* State: the environment (input file, output directory, the table in the  *)
(* file, the plotting backend), pyplot's figure stack, the disk, standard  *)
(* output, and main's position.  One process executes main() once; a later *)
(* run is a new process on the same disk.                                  *)
(***************************************************************************)
EXTENDS Integers, Sequences, FiniteSets, TLC

\* ---------------------------------------------------------------- bounds
\* The row count of a code that has more rows than the others.
MaxCount == 2
\* How many codes of one column have no rows, or more rows than the others.
MaxDev == 1
\* How many times the script is run on the same disk.
MaxRuns == 2

\* --------------------------------------------------------- configuration
OutputDir == "charts/"
DataDir == "data/"
\* os.path.join(directory, name)
Join(dir, name) == <<dir, name>>
NoPath == <<>>
DataPath == Join(DataDir, "NSDUH_2022_selected_columns_validated.csv")
ConfigFigsize == <<10, 6>>
\* rcParams["figure.figsize"], the size of a figure pyplot creates on demand
DefaultFigsize == <<6, 4>>

\* ------------------------------------------------------------ the table
DrugColumns == {"CIGFLAG", "ALCFLAG", "MJEVER", "COCEVER", "HEREVER", "LSD"}
Columns == {"AGE3", "COUTYP4", "SEXIDENT", "IRSEX", "NEWRACE2", "INCOME"} \cup DrugColumns

\* The codes each renderer expects in its column.
ExpectedCodes(col) ==
    CASE col = "AGE3" -> 4..11
      [] col = "COUTYP4" -> 1..3
      [] col = "SEXIDENT" -> 1..3
      [] col = "IRSEX" -> 1..2
      [] col = "NEWRACE2" -> 1..7
      [] col = "INCOME" -> 1..4
      [] OTHER -> 1..2

\* One code per column that no renderer expects (a survey code outside the list).
ExtraCodes(col) ==
    CASE col = "AGE3" -> {3}
      [] col = "COUTYP4" -> {4}
      [] col = "SEXIDENT" -> {4}
      [] col = "IRSEX" -> {3}
      [] col = "NEWRACE2" -> {8}
      [] col = "INCOME" -> {5}
      [] OTHER -> {0}

CodeDomain(col) == ExpectedCodes(col) \cup ExtraCodes(col)

\* A column is absent from the file or maps each code to its number of rows.
Missing == [c \in {} |-> 0]
BaseColumn(col) == [k \in CodeDomain(col) |-> IF k \in ExpectedCodes(col) THEN 1 ELSE 0]
ColumnValues(col) ==
    {Missing} \cup
    UNION {{[k \in CodeDomain(col) |-> IF k \in D THEN g[k] ELSE BaseColumn(col)[k]] :
               g \in [D -> {0, MaxCount}]} :
           D \in {S \in SUBSET CodeDomain(col) : Cardinality(S) <= MaxDev}}
BaseTable == [col \in Columns |-> BaseColumn(col)]
\* The tables of the model: every column but one has one row per expected code.
Tables == UNION {{[BaseTable EXCEPT ![col] = v] : v \in ColumnValues(col)} : col \in Columns}

HasColumn(df, col) == df[col] # Missing
\* len(df[df[col] == code])
CountRows(df, col, code) == IF code \in DOMAIN df[col] THEN df[col][code] ELSE 0

RECURSIVE SortedSeq(_)
SortedSeq(S) ==
    IF S = {} THEN <<>>
    ELSE LET m == CHOOSE x \in S : \A y \in S : x <= y
         IN <<m>> \o SortedSeq(S \ {m})

\* df[col].value_counts().sort_index(): the codes that occur, ascending, with
\* their counts; a code without rows has no entry.
ValueCountsIndex(df, col) == SortedSeq({k \in DOMAIN df[col] : df[col][k] > 0})

\* ------------------------------------------------------------ exceptions
NoExc == [class |-> "none", msg |-> "", path |-> NoPath]
Raise(c, m, p) == [class |-> c, msg |-> m, path |-> p]
\* The classes of the model that derive from Exception.
IsException(c) ==
    c \in {"FileNotFoundError", "KeyError", "ValueError", "PermissionError", "ParserError"}

VARIABLES
    table,           \* the content of the input CSV file
    inputFile,       \* "ok", "absent" or "malformed"
    outputWritable,  \* whether the output location accepts writes
    interactive,     \* whether the backend's show() blocks until the windows are closed
    strictTicks,     \* whether the plotting library rejects unequal tick and label counts
    run,             \* the number of the current process
    pc,              \* main's position: "start", "render", "done"
    idx,             \* the position in main's renderer sequence
    step,            \* the position inside the renderer: "draw", "save", "layout", "show"
    main_df,         \* main's df: the loaded table
    figs,            \* pyplot's open figures, the current one last
    dirExists,       \* whether the output directory exists
    disk,            \* the image files: path -> saved figure
    stdout,          \* what this process has printed
    calls,           \* the functions main has called in this process, in order
    exit,            \* "running", "returned", or "raised" when main propagated a failure
    dirAtStart,      \* whether the output directory existed when this process started
    runs             \* the finished processes: their calls, output, exit and disk

env == <<table, inputFile, outputWritable, interactive, strictTicks>>
vars == <<table, inputFile, outputWritable, interactive, strictTicks, run, pc, idx, step,
          main_df, figs, dirExists, disk, stdout, calls, exit, dirAtStart, runs>>

\* ----------------------------------------------------------------- pyplot
Art(by, kind, x, h, s) == [by |-> by, kind |-> kind, x |-> x, h |-> h, s |-> s]
NoLabel == -1

NextNum(fs) ==
    IF fs = <<>> THEN 1
    ELSE 1 + (CHOOSE m \in {fs[j].num : j \in 1..Len(fs)} :
                 \A j \in 1..Len(fs) : fs[j].num <= m)
\* plt.figure(figsize=...): a new empty figure, made current
NewFigure(fs, size) == Append(fs, [num |-> NextNum(fs), figsize |-> size, artists |-> <<>>])
\* plt.gcf(): the current figure, created when no figure is open
Gcf(fs) == IF fs = <<>> THEN NewFigure(fs, DefaultFigsize) ELSE fs
\* any drawing call of pyplot: it draws on the current figure
Draw(fs, arts) == LET g == Gcf(fs) IN [g EXCEPT ![Len(g)].artists = @ \o arts]
\* a close that leaves the figure open
Close_keep(fs) == fs
\* plt.close(): destroys the current figure, if there is one
Close(fs) == IF fs = <<>> THEN fs ELSE SubSeq(fs, 1, Len(fs) - 1)
\* plt.tight_layout(): gcf().tight_layout()
TightLayoutFigs(fs) == Gcf(fs)
\* plt.show(): a blocking backend returns once every window is closed, which
\* destroys the figures; a non-interactive backend does nothing
ShowFigs(fs, blocking) == IF blocking THEN <<>> ELSE fs

Min(a, b) == IF a <= b THEN a ELSE b

\* plt.bar(xs, heights, color=colors): one bar per x, the colours cycled
Bars(by, xs, heights, colors) ==
    [j \in 1..Len(xs) |->
        Art(by, "bar", xs[j], heights[j],
            IF colors = <<>> THEN "none" ELSE colors[((j - 1) % Len(colors)) + 1])]
\* the annotation loop: plt.text at each bar with its height
Texts(by, bars) == [j \in 1..Len(bars) |-> Art(by, "text", bars[j].x, bars[j].h, "")]
\* plt.legend(bars, labels): handles and labels are paired in order
Legend(by, bars, labels) ==
    [j \in 1..Min(Len(bars), Len(labels)) |-> Art(by, "legend", bars[j].x, 0, labels[j])]
\* plt.xticks(locs, labels): the locations are set, then the labels; a strict
\* library raises when the counts differ, a lenient one pairs them in order
XTicks(by, locs, numLabels, strLabels, strict) ==
    LET m == Len(numLabels)
        mismatch == Len(locs) # m /\ m # 0
        lab(j) == IF mismatch /\ strict THEN Art(by, "tick", locs[j], NoLabel, "")
                  ELSE IF j <= m THEN Art(by, "tick", locs[j], numLabels[j], strLabels[j])
                  ELSE Art(by, "tick", locs[j], NoLabel, "")
    IN [arts |-> [j \in 1..Len(locs) |-> lab(j)],
        exc |-> IF mismatch /\ strict
                THEN Raise("ValueError", "The number of FixedLocator locations does not match the number of labels", NoPath)
                ELSE NoExc]
\* plt.hist(groups, bins=...): per group and bin one patch
Hist(by, codes, counts, colors) ==
    LET n == Len(codes)
    IN [q \in 1..(n * n) |->
           LET g == ((q - 1) \div n) + 1
               b == ((q - 1) % n) + 1
           IN Art(by, "hist", codes[b], IF b = g THEN counts[g] ELSE 0, colors[g])]
Title(by, s) == <<Art(by, "title", 0, 0, s)>>
YLabel(by, s) == <<Art(by, "ylabel", 0, 0, s)>>
XLabel(by, s) == <<Art(by, "xlabel", 0, 0, s)>>
SeqOf(lo, hi) == [j \in 1..(hi - lo + 1) |-> lo + j - 1]
Blank(n) == [j \in 1..n |-> ""]
Prefix(s, n) == SubSeq(s, 1, Min(n, Len(s)))
Result(fs, e) == [figs |-> fs, exc |-> e]
KeyError(col) == Raise("KeyError", col, NoPath)

\* ------------------------------------------------------------- renderers
\* Each renderer: the figure stack and the exception (if any) after the
\* statements that precede its save_plot call.

\* The three renderers that count with value_counts().sort_index().
ValueCountsChart(df, fs, by, col, fresh, colors, tickLo, tickHi, labels, rest, legend) ==
    IF ~HasColumn(df, col) THEN Result(fs, KeyError(col))
    ELSE LET index == ValueCountsIndex(df, col)
             values == [j \in 1..Len(index) |-> df[col][index[j]]]
             f0 == IF fresh THEN NewFigure(fs, ConfigFigsize) ELSE fs
             bars == Bars(by, index, values, Prefix(colors, Len(index)))
             t == XTicks(by, index, SeqOf(tickLo, tickHi), Blank(tickHi - tickLo + 1), strictTicks)
             f1 == Draw(f0, bars \o t.arts)
         IN IF t.exc # NoExc THEN Result(f1, t.exc)
            ELSE Result(Draw(f1, rest \o (IF legend THEN Legend(by, bars, labels) ELSE <<>>)), NoExc)

histograph_age(df, fs, by) ==
    ValueCountsChart(df, fs, by, "AGE3", TRUE,
        <<"skyblue", "lightcoral", "lightgreen", "gold", "lightsalmon",
          "lightseagreen", "lightpink", "lightsteelblue">>,
        4, 11,
        <<"4 - 18-20 years", "5 - 21-23 years", "6 - 24-25 years", "7 - 26-29 years",
          "8 - 30-34 years", "9 - 35-49 years", "10 - 50-64 years", "11 - 65+ years">>,
        YLabel(by, "Number of Participants") \o XLabel(by, "Age Group")
            \o Title(by, "Distribution of Participants by Age Group (AGE3)"),
        TRUE)

histograph_newrace2(df, fs, by) ==
    ValueCountsChart(df, fs, by, "NEWRACE2", FALSE,
        <<"skyblue", "lightcoral", "lightgreen", "gold", "lightsalmon",
          "lightseagreen", "lightpink">>,
        1, 7,
        <<"1 - White", "2 - Black or African American", "3 - Native American",
          "4 - Native Hawaiian/Pacific Islander", "5 - Asian", "6 - More than one race",
          "7 - Hispanic/Latino">>,
        YLabel(by, "Number of participants")
            \o Title(by, "Distribution of participants by ethnic origin (NEWRACE2)"),
        TRUE)

histograph_income(df, fs, by) ==
    ValueCountsChart(df, fs, by, "INCOME", FALSE,
        <<"skyblue", "lightcoral", "lightgreen", "gold", "lightsalmon", "lightseagreen",
          "lightpink", "lightsteelblue", "lightyellow", "lightgrey", "lightcyan">>,
        1, 4,
        <<"1 - Less than $20,000", "2 - $20,000-$49,999", "3 - $50,000-$74,999",
          "4 - More than $75,000">>,
        YLabel(by, "Number of Participants") \o XLabel(by, "Total Annual Family Income")
            \o Title(by, "Distribution of Participants by Income Group (INCOME)"),
        TRUE)

\* The renderers that count by filtering the rows of each code.
FilterCounts(df, col, codes) == [j \in 1..Len(codes) |-> CountRows(df, col, codes[j])]

histograph_coutyp4(df, fs, by) ==
    IF ~HasColumn(df, "COUTYP4") THEN Result(fs, KeyError("COUTYP4"))
    ELSE LET counts == FilterCounts(df, "COUTYP4", <<1, 2, 3>>)
             bars == Bars(by, SeqOf(0, 2), counts, <<"skyblue", "lightgreen", "lightsalmon">>)
             t == XTicks(by, SeqOf(0, 2), <<0, 0, 0>>,
                         <<"Large Metro", "Small Metro", "Non-Metro">>, strictTicks)
             f1 == Draw(NewFigure(fs, ConfigFigsize), bars \o Texts(by, bars) \o t.arts)
         IN IF t.exc # NoExc THEN Result(f1, t.exc)
            ELSE Result(Draw(f1, Title(by, "Distribution of Participants by Residence Type (COUTYP4)")
                                 \o YLabel(by, "Number of Participants")), NoExc)

histograph_sexident(df, fs, by) ==
    IF ~HasColumn(df, "SEXIDENT") THEN Result(fs, KeyError("SEXIDENT"))
    ELSE LET counts == FilterCounts(df, "SEXIDENT", <<1, 2, 3>>)
             h == Hist(by, SeqOf(1, 3), counts, <<"C0", "C1", "C2">>)
             t == XTicks(by, <<1, 2, 3>>, <<0, 0, 0>>,
                         <<"Heterosexual", "Homosexual", "Bisexual">>, strictTicks)
             f1 == Draw(fs, h \o t.arts)
             bars == Bars(by, SeqOf(1, 3), counts, <<"skyblue", "lightgreen", "lightsalmon">>)
         IN IF t.exc # NoExc THEN Result(f1, t.exc)
            ELSE Result(Draw(f1, Title(by, "Distribution of Participants by Sexual Orientation (SEXIDENT)")
                                 \o YLabel(by, "Number of Participants")
                                 \o bars \o Texts(by, bars)), NoExc)

histograph_irsex(df, fs, by) ==
    IF ~HasColumn(df, "IRSEX") THEN Result(fs, KeyError("IRSEX"))
    ELSE LET counts == FilterCounts(df, "IRSEX", <<1, 2>>)
             h == Hist(by, SeqOf(1, 2), counts, <<"skyblue", "pink">>)
             t == XTicks(by, <<1, 2>>, <<0, 0>>, <<"Male", "Female">>, strictTicks)
             f1 == Draw(fs, h \o t.arts)
             bars == Bars(by, SeqOf(1, 2), counts, <<"skyblue", "pink">>)
         IN IF t.exc # NoExc THEN Result(f1, t.exc)
            ELSE Result(Draw(f1, Title(by, "Distribution of participants by gender (IRSEX)")
                                 \o YLabel(by, "Number of participants")
                                 \o bars \o Texts(by, bars)), NoExc)

histograph_drug(df, fs, by, drug_column_name, drug_name, drug_values, drug_labels) ==
    IF ~HasColumn(df, drug_column_name) THEN Result(fs, KeyError(drug_column_name))
    ELSE LET counts == FilterCounts(df, drug_column_name, <<1, 2>>)
             h == Hist(by, SeqOf(1, 2), counts, <<"lightsalmon", "skyblue">>)
             t == XTicks(by, drug_values, [j \in 1..Len(drug_labels) |-> 0], drug_labels,
                         strictTicks)
             f1 == Draw(fs, h \o t.arts)
             bars == Bars(by, SeqOf(1, 2), counts, <<"lightsalmon", "skyblue">>)
         IN IF t.exc # NoExc THEN Result(f1, t.exc)
            ELSE Result(Draw(f1, Title(by, "Distribution of participants by " \o drug_name
                                           \o " usage (" \o drug_column_name \o ")")
                                 \o YLabel(by, "Number of participants")
                                 \o bars \o Texts(by, bars)), NoExc)

\* ------------------------------------------------------- loader and saver
Msg(kind, text, path) == [kind |-> kind, text |-> text, path |-> path]

\* load_data without the existence test, the read failing as a parse error
load_data_unchecked(file, content) ==
    IF file = "ok"
    THEN [df |-> content, out |-> <<Msg("loading", "Loading data from: ", DataPath)>>, exc |-> NoExc]
    ELSE [df |-> BaseTable, out |-> <<Msg("loading", "Loading data from: ", DataPath)>>,
          exc |-> Raise("ParserError", "Error tokenizing data", NoPath)]
\* load_data(): prints the path, raises FileNotFoundError carrying the path when
\* the file is absent, else parses the file (read_csv raises on a malformed one)
load_data(file, content) ==
    LET out == <<Msg("loading", "Loading data from: ", DataPath)>>
    IN IF file = "absent"
       THEN [df |-> BaseTable, out |-> out,
             exc |-> Raise("FileNotFoundError", "Data file not found at: ", DataPath)]
       ELSE IF file = "malformed"
       THEN [df |-> BaseTable, out |-> out, exc |-> Raise("ParserError", "Error tokenizing data", NoPath)]
       ELSE [df |-> content, out |-> out, exc |-> NoExc]

\* configure_output(filename): os.makedirs(output_dir, exist_ok=True), then the
\* joined path; makedirs fails where the location refuses writes
configure_output(filename, de, writable) ==
    IF ~de /\ ~writable
    THEN [path |-> NoPath, dirExists |-> de,
          exc |-> Raise("PermissionError", "Permission denied: ", <<OutputDir>>)]
    ELSE [path |-> Join(OutputDir, filename), dirExists |-> TRUE, exc |-> NoExc]

\* save_plot with a savefig that refuses to replace a file
save_plot_exclusive(filename, fs, d, de, writable) ==
    LET path == Join(OutputDir, filename)
        g == Gcf(fs)
        image == [figsize |-> g[Len(g)].figsize, artists |-> g[Len(g)].artists]
    IN IF ~writable \/ path \in DOMAIN d
       THEN [figs |-> g, disk |-> d, dirExists |-> de,
             out |-> <<Msg("attempting", "Attempting to save to: ", path)>>,
             exc |-> Raise("PermissionError", "File exists or permission denied: ", path)]
       ELSE [figs |-> Close(g), disk |-> (path :> image) @@ d, dirExists |-> TRUE,
             out |-> <<Msg("attempting", "Attempting to save to: ", path),
                      Msg("saved", "Successfully saved plot to: ", path)>>,
             exc |-> NoExc]
\* save_plot(filename): configure_output, print, savefig of the current figure,
\* print, close
save_plot(filename, fs, d, de, writable) ==
    LET c == configure_output(filename, de, writable)
        g == Gcf(fs)
        image == [figsize |-> g[Len(g)].figsize, artists |-> g[Len(g)].artists]
    IN IF c.exc # NoExc
       THEN [figs |-> fs, disk |-> d, dirExists |-> c.dirExists, out |-> <<>>, exc |-> c.exc]
       ELSE IF ~writable
       THEN [figs |-> g, disk |-> d, dirExists |-> c.dirExists,
             out |-> <<Msg("attempting", "Attempting to save to: ", c.path)>>,
             exc |-> Raise("PermissionError", "Permission denied: ", c.path)]
       ELSE [figs |-> Close(g), disk |-> (c.path :> image) @@ d, dirExists |-> c.dirExists,
             out |-> <<Msg("attempting", "Attempting to save to: ", c.path),
                      Msg("saved", "Successfully saved plot to: ", c.path)>>,
             exc |-> NoExc]

\* ------------------------------------------------------------------ main
drug_config ==
    << <<"CIGFLAG", "Cigarettes", <<1, 2>>, <<"Used", "Never used">> >>,
       <<"ALCFLAG", "Alcohol", <<1, 2>>, <<"Used", "Never used">> >>,
       <<"MJEVER", "Marijuana", <<1, 2>>, <<"Used", "Never used">> >>,
       <<"COCEVER", "Cocaine", <<1, 2>>, <<"Used", "Never used">> >>,
       <<"HEREVER", "Heroin", <<1, 2>>, <<"Used", "Never used">> >>,
       <<"LSD", "LSD", <<1, 2>>, <<"Used", "Never used">> >> >>

Call(fn, args) == [fn |-> fn, args |-> args]
\* main calling two renderers in the other order
MainCalls_reordered ==
    << Call("histograph_age", <<>>), Call("histograph_sexident", <<>>),
       Call("histograph_coutyp4", <<>>), Call("histograph_irsex", <<>>),
       Call("histograph_newrace2", <<>>), Call("histograph_income", <<>>) >>
    \o [j \in 1..Len(drug_config) |-> Call("histograph_drug", drug_config[j])]
\* The renderer calls of main's try block, in program order.
MainCalls ==
    << Call("histograph_age", <<>>), Call("histograph_coutyp4", <<>>),
       Call("histograph_sexident", <<>>), Call("histograph_irsex", <<>>),
       Call("histograph_newrace2", <<>>), Call("histograph_income", <<>>) >>
    \o [j \in 1..Len(drug_config) |-> Call("histograph_drug", drug_config[j])]

\* the income renderer saving under the race chart's name
SaveName_copied(call) ==
    CASE call.fn = "histograph_age" -> "histogram_age3_eng.jpg"
      [] call.fn = "histograph_coutyp4" -> "histogram_coutyp4_eng.jpg"
      [] call.fn = "histograph_sexident" -> "histogram_sexident_eng.jpg"
      [] call.fn = "histograph_irsex" -> "histogram_irsex_eng.jpg"
      [] call.fn = "histograph_newrace2" -> "histogram_newrace2_eng.jpg"
      [] call.fn = "histograph_income" -> "histogram_newrace2_eng.jpg"
      [] OTHER -> "histographs_drug_" \o call.args[2] \o "_eng.jpg"
\* The file name each renderer hands to save_plot.
SaveName(call) ==
    CASE call.fn = "histograph_age" -> "histogram_age3_eng.jpg"
      [] call.fn = "histograph_coutyp4" -> "histogram_coutyp4_eng.jpg"
      [] call.fn = "histograph_sexident" -> "histogram_sexident_eng.jpg"
      [] call.fn = "histograph_irsex" -> "histogram_irsex_eng.jpg"
      [] call.fn = "histograph_newrace2" -> "histogram_newrace2_eng.jpg"
      [] call.fn = "histograph_income" -> "histograph_income_eng.jpg"
      [] OTHER -> "histographs_drug_" \o call.args[2] \o "_eng.jpg"

\* the first except clause also taking lookup failures
MainExcept_lookup(exc) ==
    IF exc.class \in {"FileNotFoundError", "KeyError"}
    THEN [out |-> <<Msg("error_input_missing", exc.msg, exc.path)>>, exit |-> "returned"]
    ELSE IF IsException(exc.class)
    THEN [out |-> <<Msg("error_unexpected", exc.msg, exc.path)>>, exit |-> "returned"]
    ELSE [out |-> <<>>, exit |-> "raised"]
\* the second except clause naming ValueError instead of Exception
MainExcept_narrow(exc) ==
    IF exc.class = "FileNotFoundError"
    THEN [out |-> <<Msg("error_input_missing", exc.msg, exc.path)>>, exit |-> "returned"]
    ELSE IF exc.class = "ValueError"
    THEN [out |-> <<Msg("error_unexpected", exc.msg, exc.path)>>, exit |-> "returned"]
    ELSE [out |-> <<>>, exit |-> "raised"]
\* main's except clauses: FileNotFoundError gets the input-missing report, any
\* other Exception the generic report; anything else leaves main unhandled.
MainExcept(exc) ==
    IF exc.class = "FileNotFoundError"
    THEN [out |-> <<Msg("error_input_missing", exc.msg, exc.path)>>, exit |-> "returned"]
    ELSE IF IsException(exc.class)
    THEN [out |-> <<Msg("error_unexpected", exc.msg, exc.path)>>, exit |-> "returned"]
    ELSE [out |-> <<>>, exit |-> "raised"]

Summary(c, o, e, d, de) == [calls |-> c, stdout |-> o, exit |-> e, disk |-> d, dirExists |-> de]

\* The end of main: normally, or through the except clauses.
Finish(out, how) ==
    /\ stdout' = stdout \o out
    /\ exit' = how
    /\ pc' = "done"
    /\ runs' = Append(runs, Summary(calls', stdout', exit', disk', dirExists'))
Halt(out, exc) == Finish(out \o MainExcept(exc).out, MainExcept(exc).exit)

Init ==
    /\ table \in Tables
    /\ inputFile \in {"ok", "absent", "malformed"}
    /\ outputWritable \in BOOLEAN
    /\ interactive \in BOOLEAN
    /\ strictTicks \in BOOLEAN
    /\ dirExists \in BOOLEAN
    /\ dirAtStart = dirExists
    /\ run = 1
    /\ pc = "start"
    /\ idx = 1
    /\ step = "draw"
    /\ main_df = BaseTable
    /\ figs = <<>>
    /\ disk = <<>>
    /\ stdout = <<>>
    /\ calls = <<>>
    /\ exit = "running"
    /\ runs = <<>>

\* df = load_data()
LoadData ==
    /\ pc = "start"
    /\ LET r == load_data(inputFile, table)
       IN /\ calls' = Append(calls, Call("load_data", <<>>))
          /\ main_df' = r.df
          /\ UNCHANGED <<env, dirAtStart, run, idx, step, figs, dirExists, disk>>
          /\ IF r.exc = NoExc
             THEN /\ pc' = "render"
                  /\ stdout' = stdout \o r.out
                  /\ UNCHANGED <<exit, runs>>
             ELSE Halt(r.out, r.exc)

\* A renderer's statements up to its save_plot call.
Render(fn, r) ==
    /\ calls' = Append(calls, MainCalls[idx])
    /\ figs' = r.figs
    /\ UNCHANGED <<env, dirAtStart, run, idx, main_df, dirExists, disk>>
    /\ IF r.exc = NoExc
       THEN /\ step' = "save"
            /\ UNCHANGED <<pc, stdout, exit, runs>>
       ELSE /\ UNCHANGED step
            /\ Halt(<<>>, r.exc)

AtCall(fn) ==
    /\ pc = "render"
    /\ step = "draw"
    /\ idx <= Len(MainCalls)
    /\ MainCalls[idx].fn = fn

HistographAge ==
    /\ AtCall("histograph_age")
    /\ Render("histograph_age", histograph_age(main_df, figs, idx))
HistographCoutyp4 ==
    /\ AtCall("histograph_coutyp4")
    /\ Render("histograph_coutyp4", histograph_coutyp4(main_df, figs, idx))
HistographSexident ==
    /\ AtCall("histograph_sexident")
    /\ Render("histograph_sexident", histograph_sexident(main_df, figs, idx))
HistographIrsex ==
    /\ AtCall("histograph_irsex")
    /\ Render("histograph_irsex", histograph_irsex(main_df, figs, idx))
HistographNewrace2 ==
    /\ AtCall("histograph_newrace2")
    /\ Render("histograph_newrace2", histograph_newrace2(main_df, figs, idx))
HistographIncome ==
    /\ AtCall("histograph_income")
    /\ Render("histograph_income", histograph_income(main_df, figs, idx))
HistographDrug ==
    /\ AtCall("histograph_drug")
    /\ LET a == MainCalls[idx].args
       IN Render("histograph_drug", histograph_drug(main_df, figs, idx, a[1], a[2], a[3], a[4]))

\* save_plot(<the renderer's file name>)
SavePlot ==
    /\ pc = "render"
    /\ step = "save"
    /\ LET r == save_plot(SaveName(MainCalls[idx]), figs, disk, dirExists, outputWritable)
       IN /\ figs' = r.figs
          /\ disk' = r.disk
          /\ dirExists' = r.dirExists
          /\ UNCHANGED <<env, dirAtStart, run, idx, main_df, calls>>
          /\ IF r.exc = NoExc
             THEN /\ step' = "layout"
                  /\ stdout' = stdout \o r.out
                  /\ UNCHANGED <<pc, exit, runs>>
             ELSE /\ UNCHANGED step
                  /\ Halt(r.out, r.exc)

\* plt.tight_layout(), after save_plot has returned
TightLayout ==
    /\ pc = "render"
    /\ step = "layout"
    /\ figs' = TightLayoutFigs(figs)
    /\ step' = "show"
    /\ UNCHANGED <<env, dirAtStart, run, pc, idx, main_df, dirExists, disk, stdout, calls, exit, runs>>

\* plt.show(), the renderer's last statement
Show ==
    /\ pc = "render"
    /\ step = "show"
    /\ figs' = ShowFigs(figs, interactive)
    /\ step' = "draw"
    /\ idx' = idx + 1
    /\ UNCHANGED <<env, dirAtStart, run, pc, main_df, dirExists, disk, stdout, calls, exit, runs>>

\* the try block has run to its end
MainReturn ==
    /\ pc = "render"
    /\ step = "draw"
    /\ idx = Len(MainCalls) + 1
    /\ UNCHANGED <<env, dirAtStart, run, idx, step, main_df, figs, dirExists, disk, calls>>
    /\ Finish(<<>>, "returned")

\* The script is started again: a new process, the same files.
RunAgain ==
    /\ pc = "done"
    /\ run < MaxRuns
    /\ run' = run + 1
    /\ pc' = "start"
    /\ idx' = 1
    /\ step' = "draw"
    /\ main_df' = BaseTable
    /\ figs' = <<>>
    /\ stdout' = <<>>
    /\ calls' = <<>>
    /\ exit' = "running"
    /\ dirAtStart' = dirExists
    /\ UNCHANGED <<env, dirExists, disk, runs>>

Next ==
    \/ LoadData
    \/ HistographAge
    \/ HistographCoutyp4
    \/ HistographSexident
    \/ HistographIrsex
    \/ HistographNewrace2
    \/ HistographIncome
    \/ HistographDrug
    \/ SavePlot
    \/ TightLayout
    \/ Show
    \/ MainReturn
    \/ RunAgain

Spec == Init /\ [][Next]_vars

\* ================================================================ claims
\* What the claims read off a state.
ErrorKinds(o) ==
    LET e == SelectSeq(o, LAMBDA m : m.kind \in {"error_input_missing", "error_unexpected"})
    IN [j \in 1..Len(e) |-> e[j].kind]
SavedPaths(o) ==
    LET e == SelectSeq(o, LAMBDA m : m.kind = "saved")
    IN [j \in 1..Len(e) |-> e[j].path]
Range(q) == {q[j] : j \in 1..Len(q)}
CallKey(c) == <<c.fn, IF c.fn = "histograph_drug" THEN c.args[2] ELSE "">>
CallKeys(cs) == [j \in 1..Len(cs) |-> CallKey(cs[j])]
\* The order of calls the specification gives for main.
OrderedCalls ==
    << <<"load_data", "">>, <<"histograph_age", "">>, <<"histograph_coutyp4", "">>,
       <<"histograph_sexident", "">>, <<"histograph_irsex", "">>,
       <<"histograph_newrace2", "">>, <<"histograph_income", "">>,
       <<"histograph_drug", "Cigarettes">>, <<"histograph_drug", "Alcohol">>,
       <<"histograph_drug", "Marijuana">>, <<"histograph_drug", "Cocaine">>,
       <<"histograph_drug", "Heroin">>, <<"histograph_drug", "LSD">> >>
\* The chart files in chart order, and the column each chart is drawn from.
ChartFiles ==
    <<"histogram_age3_eng.jpg", "histogram_coutyp4_eng.jpg", "histogram_sexident_eng.jpg",
      "histogram_irsex_eng.jpg", "histogram_newrace2_eng.jpg", "histograph_income_eng.jpg",
      "histographs_drug_Cigarettes_eng.jpg", "histographs_drug_Alcohol_eng.jpg",
      "histographs_drug_Marijuana_eng.jpg", "histographs_drug_Cocaine_eng.jpg",
      "histographs_drug_Heroin_eng.jpg", "histographs_drug_LSD_eng.jpg">>
ChartColumns ==
    <<"AGE3", "COUTYP4", "SEXIDENT", "IRSEX", "NEWRACE2", "INCOME",
      "CIGFLAG", "ALCFLAG", "MJEVER", "COCEVER", "HEREVER", "LSD">>
ChartPath(j) == <<OutputDir, ChartFiles[j]>>
NumCharts == Len(ChartFiles)
DiskAtStart == IF run = 1 THEN <<>> ELSE runs[run - 1].disk
\* The process is over and its try block ran to the end / stopped early.
Succeeded == pc = "done" /\ idx = NumCharts + 1
RendererFailed == pc = "done" /\ idx <= NumCharts /\ Len(calls) = idx + 1
CompleteTable(t) ==
    \A col \in Columns : HasColumn(t, col) /\ \A k \in ExpectedCodes(col) : t[col][k] >= 1
OnlyExpectedCodes(t) ==
    \A col \in {"AGE3", "NEWRACE2", "INCOME"} :
        HasColumn(t, col) => \A k \in ExtraCodes(col) : t[col][k] = 0
BarsOf(image) == SelectSeq(image.artists, LAMBDA a : a.kind = "bar")

\* C1: in every run load_data is called once and first, the renderers follow in
\* the fixed order (age, residence type, sexual orientation, sex, race, income,
\* then the six substances), none twice or out of order; a run in which
\* nothing fails makes all thirteen calls.
C1_CallOrder ==
    /\ Len(calls) <= Len(OrderedCalls)
    /\ CallKeys(calls) = SubSeq(OrderedCalls, 1, Len(calls))
    /\ pc # "start" => Len(calls) >= 1
    /\ (pc = "done" /\ ErrorKinds(stdout) = <<>>) => CallKeys(calls) = OrderedCalls
    /\ \A r \in 1..Len(runs) :
           /\ CallKeys(runs[r].calls) = SubSeq(OrderedCalls, 1, Len(runs[r].calls))
           /\ ErrorKinds(runs[r].stdout) = <<>> => CallKeys(runs[r].calls) = OrderedCalls
C1_Witness ==
    /\ pc = "done"
    /\ ErrorKinds(stdout) = <<>>
    /\ Len(calls) = 13
    /\ calls[13].args[2] = "LSD"

C3_MissingInput ==
    inputFile = "absent" =>
        /\ CallKeys(calls) = SubSeq(OrderedCalls, 1, Len(calls))
        /\ Len(calls) <= 1
        /\ figs = <<>>
        /\ dirExists = dirAtStart
        /\ disk = <<>>
        /\ SavedPaths(stdout) = <<>>
        /\ pc = "done" =>
               /\ stdout = <<Msg("loading", "Loading data from: ", DataPath),
                             Msg("error_input_missing", "Data file not found at: ", DataPath)>>
               /\ exit = "returned"
C3_Witness ==
    /\ inputFile = "absent"
    /\ pc = "done"
    /\ ~dirExists
    /\ Len(stdout) = 2

\* C4 as claimed: on a table with every column and a row for every expected
\* code, a run of the full sequence writes thirteen image files, distinct and
\* under the output directory.
C4_ThirteenFiles ==
    (Succeeded /\ CompleteTable(table)) =>
        /\ Len(SavedPaths(stdout)) = 13
        /\ Cardinality(Range(SavedPaths(stdout))) = 13
        /\ \A p \in Range(SavedPaths(stdout)) : p[1] = OutputDir
\* C4 as amended: on such a table a run of the full sequence writes exactly
\* twelve image files, one per chart, with distinct names, all under the
\* output directory; and the run is full, ending without a report, when the
\* input file is present, the output location is writable and the AGE3,
\* NEWRACE2 and INCOME columns hold no code outside the expected lists.
C4_TwelveFiles ==
    /\ (Succeeded /\ CompleteTable(table)) =>
           /\ Len(SavedPaths(stdout)) = 12
           /\ Cardinality(Range(SavedPaths(stdout))) = 12
           /\ Range(SavedPaths(stdout)) = {ChartPath(j) : j \in 1..NumCharts}
           /\ \A p \in Range(SavedPaths(stdout)) : p[1] = OutputDir /\ p \in DOMAIN disk
    /\ (pc = "done" /\ inputFile = "ok" /\ outputWritable /\ CompleteTable(table)
           /\ OnlyExpectedCodes(table)) =>
           Succeeded /\ ErrorKinds(stdout) = <<>>
C4_Witness ==
    /\ Succeeded
    /\ inputFile = "ok"
    /\ outputWritable
    /\ CompleteTable(table)
    /\ OnlyExpectedCodes(table)
    /\ table["AGE3"][4] = 2
    /\ Len(SavedPaths(stdout)) = 12

\* C5: every renderer plots one bar per declared code, in declared order, with
\* the code's row count as height (zero when no row has the code), and does
\* not fail because a code has no rows.
C5_BarsCoverDeclaredCodes ==
    /\ (pc = "done" /\ inputFile = "ok" /\ outputWritable
           /\ \A col \in Columns : HasColumn(table, col)) => ErrorKinds(stdout) = <<>>
    /\ \A j \in 1..NumCharts :
           ChartPath(j) \in DOMAIN disk =>
               LET bars == BarsOf(disk[ChartPath(j)])
                   codes == SortedSeq(ExpectedCodes(ChartColumns[j]))
               IN /\ Len(bars) = Len(codes)
                  /\ \A k \in 1..Len(codes) :
                         bars[k].h = CountRows(table, ChartColumns[j], codes[k])

\* C6: no figure is open when a renderer starts, nor when main returns after a
\* run without failure.
C6_NoFigureOpenBetweenRenderers ==
    /\ (pc = "render" /\ step = "draw") => figs = <<>>
    /\ Succeeded => figs = <<>>

\* C7: in every image a renderer saves, each bar is annotated with its count.
C7_EveryBarAnnotated ==
    \A p \in DOMAIN disk :
        \A j \in 1..Len(disk[p].artists) :
            LET a == disk[p].artists[j]
            IN a.kind = "bar" =>
                   \E k \in 1..Len(disk[p].artists) :
                       LET b == disk[p].artists[k]
                       IN b.kind = "text" /\ b.x = a.x /\ b.h = a.h

\* C8: main never propagates a failure: every run ends by returning, with
\* exactly one of the two reports when something failed and none otherwise.
C8_MainAlwaysReturns ==
    /\ exit # "raised"
    /\ pc = "done" =>
           /\ exit = "returned"
           /\ IF idx = NumCharts + 1
              THEN ErrorKinds(stdout) = <<>>
              ELSE /\ Len(ErrorKinds(stdout)) = 1
                   /\ stdout[Len(stdout)].kind \in {"error_input_missing", "error_unexpected"}
C8_Witness ==
    /\ pc = "done"
    /\ idx = 5
    /\ step = "draw"
    /\ table["NEWRACE2"] # Missing
    /\ ErrorKinds(stdout) = <<"error_unexpected">>

\* C9: a second run on the unchanged table after a run without failure also
\* ends without failure, writes the same file names, leaves the same set of
\* files, and every file has the content the first run gave it.
C9_SecondRunIdempotent ==
    \A r \in 1..Len(runs) :
        (r >= 2 /\ ErrorKinds(runs[r - 1].stdout) = <<>>) =>
            /\ ErrorKinds(runs[r].stdout) = <<>>
            /\ runs[r].exit = "returned"
            /\ SavedPaths(runs[r].stdout) = SavedPaths(runs[r - 1].stdout)
            /\ DOMAIN runs[r].disk = DOMAIN runs[r - 1].disk
            /\ runs[r].disk = runs[r - 1].disk
C9_Witness ==
    /\ Len(runs) = 2
    /\ ErrorKinds(runs[1].stdout) = <<>>
    /\ Len(SavedPaths(runs[2].stdout)) = 12
    /\ runs[1].dirExists

\* C10: whenever save_plot is called, the current figure holds drawings of the
\* running renderer only, and so does every saved image.
C10_FigureHoldsOnlyOwnDrawing ==
    /\ (pc = "render" /\ step = "save") =>
           /\ figs # <<>>
           /\ figs[Len(figs)].artists # <<>>
           /\ \A a \in Range(figs[Len(figs)].artists) : a.by = idx
    /\ \A j \in 1..NumCharts :
           ChartPath(j) \in DOMAIN disk =>
               \A a \in Range(disk[ChartPath(j)].artists) : a.by = j
C10_Witness ==
    /\ pc = "render"
    /\ step = "save"
    /\ idx = 3
    /\ ~interactive
    /\ Len(figs) = 1
    /\ figs[1].figsize = DefaultFigsize
    /\ ChartPath(2) \in DOMAIN disk

====
